---- MODULE Spec2Model ----
(***************************************************************************)
(* Session and shared-state synchronisation of the egypt-mmo game server   *)
(* (the socket.io server embedded in src/src/core/WorldManager.js, lines   *)
(* 2402-3181).  The server is single threaded: every handler runs to       *)
(* completion, so each handler is one action.  The browser client          *)
(* (NetworkManager of src/unnamed/part_002, the mirror of the other        *)
(* players kept by src/src/core/GameEngine.js) is single threaded too:     *)
(* each method call, socket event handler and timer callback is one action.*)
(***************************************************************************)
EXTENDS Integers, Sequences, FiniteSets, TLC

\* ------------------------------------------------------------------ bounds
MaxTransports == 3      \* socket ids that ever connect (socket ids are never reused)
MaxNow == 1             \* Date.now() takes the values 0..MaxNow (clock steps)
MaxIds == 2             \* distinct values the id generator can return
MaxSteps == 7           \* events and clock steps in one explored run
MaxClockNow == 14       \* ClockSpec: Date.now() takes the values 0..MaxClockNow (clock steps)
MaxTickDelay == 2       \* ClockSpec: the timer callback runs at most this many periods after its last run
MaxSockets == 2         \* SessionSpec: Socket objects one page load creates with io()
MaxClientSteps == 7     \* SessionSpec: method calls, timer callbacks and transport events of the page in one run
MaxSessionSteps == 10   \* SessionSpec: steps of the page and of the server together in one run

\* one clock step is the period of the world-time timer, in milliseconds
MsPerStep == 1000

\* socket.id values
Transports == {"s" \o ToString(i) : i \in 1..MaxTransports}

\* outcomes of (Math.random() - 0.5) * 50
SpawnX == {-20}
SpawnZ == {20}

\* the values `player_${Date.now()}_${Math.random().toString(36).substr(2, 9)}`
\* can take: a millisecond time stamp and a random suffix, abstracted to one draw
GeneratedIds == {"player_" \o ToString(i) : i \in 1..MaxIds}

\* a join request without sessionId (undefined is falsy)
NoToken == ""

\* the sessionId values a client may put in a join request
Tokens == GeneratedIds \cup {NoToken}

\* playerData.name: the join requests of this model carry no name
NoName == "undefined"
Names == {}
NoRotation == [undefined |-> TRUE]
ZeroRotation == [x |-> 0, y |-> 0, z |-> 0]

\* payloads of player_join requests: {sessionId?, name?, rotation?}
JoinData == [sessionId : Tokens, name : Names \cup {NoName}, rotation : {NoRotation}]

\* payloads of player_move requests: {position, rotation, timestamp}
MoveData == { [position |-> [x |-> 30, y |-> 1, z |-> 0], rotation |-> [x |-> 0, y |-> 90, z |-> 0], timestamp |-> 7],
              [position |-> [x |-> -20, y |-> 0, z |-> 20], rotation |-> ZeroRotation, timestamp |-> 8] }

\* payloads of chat_message requests: {message, channel?, timestamp}
NoChannel == "undefined"
ChatData == { [message |-> "hi", channel |-> NoChannel, timestamp |-> 9] }

\* world time is kept in units of 1/TimeUnits of a day
TimeUnits == 100000
InitialTime == 35000        \* 0.35
CycleSpeedUnits == 100      \* 0.001 * TimeUnits

\* the client's timers and throttle, in milliseconds
ReconnectDelayMs == 2000
ConnectTimeoutMs == 10000
ThrottleMs == 100
HeartbeatMs == 30000
\* Player.js: positions of the page's own player are counted in 1/PositionUnits
\* of a world unit; moveSpeed is in world units per second
PositionUnits == 100
MoveSpeed == 15
StopDistance == PositionUnits \div 5
NetworkUpdateMs == 100

VARIABLES
    conn,            \* socket.io: per socket id, "fresh" (never connected), "open" or "closed"
    players,         \* gameState.players: Map playerId -> player record
    playerSessions,  \* gameState.playerSessions: Map socket.id -> playerId
    worldTime,       \* gameState.worldTime: {time, cycleSpeed, lastUpdate}
    now,             \* Date.now(), in clock steps
    lastEvent,       \* the event handled by the last step, with the handler's locals
    emitted,         \* the emits of the handler run by the last step, in order
    issued,          \* per socket id, the sessionId of the last player_joined sent to it
    steps,           \* number of events and clock steps so far
    nm,              \* the fields of the page's NetworkManager (this.socket, this.isConnected, ...)
    sockets,         \* socket.io-client: the Socket objects the page has created with io()
    reconnectTimers, \* the pending setTimeout callbacks of the disconnect handler: their due times
    localStorage,    \* localStorage['egypt_mmo_session_id'] ("" when there is none)
    cnow,            \* Date.now() in the browser, in milliseconds
    enginePlayers,   \* GameEngine.players: Map id -> proxy mesh of another player
    history,         \* what the client has sent and been sent so far (not program state)
    csteps,          \* number of client steps so far
    inbox,           \* events the server has emitted to the client's sockets, not yet received
    outbox,          \* events the client has emitted, not yet received by the server
    localPlayer,     \* GameEngine.player: the page's own Player (position, targetPosition, ...)
    heartbeats,      \* the running setInterval timers of startHeartbeat: their next due times
    shutdown         \* the server process: "running", "closing" (server.close() called) or "exited"

\* the server, the client, and the messages between them
svars == <<conn, players, playerSessions, worldTime, now, issued, steps, shutdown>>
cvars == <<nm, sockets, reconnectTimers, localStorage, cnow, enginePlayers, history, csteps, heartbeats, localPlayer>>
net == <<inbox, outbox>>

vars == <<conn, players, playerSessions, worldTime, now, lastEvent, emitted, issued, steps,
          nm, sockets, reconnectTimers, localStorage, cnow, enginePlayers, history, csteps,
          inbox, outbox, shutdown, heartbeats, localPlayer>>

\* ------------------------------------------------------------- Map helpers
MapSet(m, k, v) == [x \in DOMAIN m \cup {k} |-> IF x = k THEN v ELSE m[x]]
MapDelete(m, k) == [x \in DOMAIN m \ {k} |-> m[x]]
EmptyMap == [x \in {} |-> 0]

\* --------------------------------------------------------- socket.io emits
Connected == {t \in Transports : conn[t] = "open"}

\* socket.emit(ev, data)
SocketEmit(t, ev, data) == [ev |-> ev, to |-> {t}, data |-> data]
\* socket.broadcast.emit(ev, data): every connected socket but the sender
BroadcastEmitToAll(t, ev, data) == [ev |-> ev, to |-> Connected, data |-> data]
BroadcastEmit(t, ev, data) == [ev |-> ev, to |-> Connected \ {t}, data |-> data]
IoEmitToJoined(ev, data) ==
    [ev |-> ev, to |-> {t \in Connected : t \in DOMAIN playerSessions}, data |-> data]
\* io.emit(ev, data): every connected socket
IoEmit(ev, data) == [ev |-> ev, to |-> Connected, data |-> data]

\* {...p, sessions: undefined}
StripSessions(p) == [f \in DOMAIN p \ {"sessions"} |-> p[f]]

\* `Player_${playerId.slice(-4)}`
DefaultName(playerId) == "Player_" \o playerId

\* playerData.name || `Player_${playerId.slice(-4)}`
NameOf(playerData, playerId) == IF playerData.name = NoName THEN DefaultName(playerId) ELSE playerData.name

\* playerData.rotation || { x: 0, y: 0, z: 0 }
RotationOf(playerData) == IF playerData.rotation = NoRotation THEN ZeroRotation ELSE playerData.rotation

\* the object literal built at lines 2640-2655.  level, skills, inventory,
\* equipment and connectedAt are copied from the request like rotation and never
\* read or written again by a handler; lastMove is only written.  They are left out.
NewPlayer(playerId, playerData, startX, startZ) ==
    [id |-> playerId,
     name |-> NameOf(playerData, playerId),
     position |-> [x |-> startX, y |-> 0, z |-> startZ],
     rotation |-> RotationOf(playerData),
     sessions |-> {}]

\* let isNewPlayer: true exactly when the request carries no sessionId (lines 2623-2630)
IsNewPlayerOnMissingRecord(playerData) == playerData.sessionId \notin DOMAIN players
IsNewPlayer(playerData) == playerData.sessionId = NoToken

\* gameState.players.get(playerId), or the record created when there is none (lines 2633-2661)
LookupOrRespawn(playerId, playerData, startX, startZ) == NewPlayer(playerId, playerData, startX, startZ)
LookupOrCreate(playerId, playerData, startX, startZ) ==
    IF playerId \in DOMAIN players THEN players[playerId] ELSE NewPlayer(playerId, playerData, startX, startZ)

\* the worldState object built at lines 2678-2690
WorldStateAtStart(ps, wt) ==
    [players |-> {StripSessions(ps[id]) : id \in DOMAIN ps},
     worldTime |-> [time |-> InitialTime, timestamp |-> wt.lastUpdate]]
WorldState(ps, wt) ==
    [players |-> {StripSessions(ps[id]) : id \in DOMAIN ps},
     worldTime |-> [time |-> wt.time, timestamp |-> wt.lastUpdate]]

\* the confirmation object built at lines 2696-2704
JoinedConfirmation(player, playerId) ==
    [success |-> TRUE, player |-> StripSessions(player), sessionId |-> playerId]

\* gameState.playerSessions.get(socket.id): undefined (falsy) when there is no entry
ResolveOrAnyPlayer(t) ==
    IF t \in DOMAIN playerSessions THEN playerSessions[t]
    ELSE IF DOMAIN players = {} THEN NoToken ELSE CHOOSE p \in DOMAIN players : TRUE
Resolve(t) == IF t \in DOMAIN playerSessions THEN playerSessions[t] ELSE NoToken

\* the player_move broadcast payload built at lines 2724-2729
MovePayloadBySocket(t, playerId, data) ==
    [playerId |-> t, position |-> data.position, rotation |-> data.rotation, timestamp |-> data.timestamp]
MovePayload(t, playerId, data) ==
    [playerId |-> playerId, position |-> data.position, rotation |-> data.rotation, timestamp |-> data.timestamp]

\* data.channel || 'global'
ChannelOf(data) == IF data.channel = NoChannel THEN "global" ELSE data.channel

\* player.sessions.size === 0 (line 2814)
OneSessionLeft(player) == Cardinality(player.sessions) = 1
AnySessionGone(player) == TRUE
LastSessionGone(player) == player.sessions = {}

\* the emits of the disconnect handler (lines 2814-2822)
LeaveAlways(t, playerId, player) == <<BroadcastEmit(t, "player_leave", playerId)>>
LeaveEmits(t, playerId, player) ==
    IF LastSessionGone(player) THEN <<BroadcastEmit(t, "player_leave", playerId)>> ELSE <<>>

\* ------------------------------------------------------ the browser client
\* the Socket objects of one page load, in the order io() creates them
SocketIds == 1..MaxSockets
\* this.socket = null
NoSocket == 0

\* socket.io-client keeps, for each Socket object:
\*   state    "none" (not created yet), "opening" (io() called, first attempt
\*            under way), "connected", "down" (lost or failed: the Manager tries
\*            again, reconnection: true) or "closed" (no further attempt)
\*   events   the handlers of setupSocketEvents are registered on it
\*   timeout  the due time of the pending 10 s timer of the connect() call that
\*            created it (0: none pending)
\*   id       socket.id ("" while not connected)
NoSocketYet == [state |-> "none", events |-> FALSE, timeout |-> 0, id |-> NoToken]

\* the socket ids the server gives to the client's sockets, and to another client
PeerTransports == {"s" \o ToString(MaxTransports)}
ClientTransports == Transports \ PeerTransports

\* Date.now() when the page is loaded
PageLoadedAt == 1000

\* how long the browser is left alone at a time: half the throttle window, or
\* the heartbeat period (time stops at the next due timer, see TimeAfter)
ClientDelays == {ThrottleMs \div 2, HeartbeatMs}

\* the positions the local player reports
ClientPositions == {[x |-> 30, y |-> 1, z |-> 0]}

\* the reasons of a disconnect event that the client did not ask for
DisconnectReasons == {"transport close", "ping timeout"}

\* what the model remembers of a run, next to the program's state:
\*   sent       the times of the player_move events the present page has emitted
\*   confirmed  the sessionId of the last player_joined that reached the browser
\*   reloaded   the page has been loaded again, and no player_joined has reached
\*              it since
\*   attached   the player id of the last player_joined that reached the present
\*              page on a connection it has not closed itself since
\*   lost       a connection of the page was lost since then
\*   movedAs    the player the page was attached to when its player last set out
\*   arrived    the page's player has reached its destination and not set out since
NoHistory == [sent |-> <<>>, confirmed |-> NoToken, reloaded |-> FALSE, attached |-> NoToken, lost |-> FALSE,
              movedAs |-> NoToken, arrived |-> FALSE]

\* constructor(), lines 4-31 (the callbacks are set by GameEngine.setNetworkManager)
Constructor ==
    [socket |-> NoSocket, isConnected |-> FALSE, connecting |-> FALSE, eventsSetup |-> FALSE,
     isInitialized |-> FALSE, playerId |-> NoToken, sessionId |-> NoToken,
     heartbeatInterval |-> FALSE, lastPositionUpdate |-> 0]

\* init(), lines 33-56: localStorage.getItem gives null (falsy, here "") when nothing is stored
NmInit(c, stored) ==
    IF c.isInitialized THEN c
    ELSE [c EXCEPT !.sessionId = stored, !.socket = NoSocket, !.isConnected = FALSE,
                   !.playerId = NoToken, !.isInitialized = TRUE]

\* connect(), lines 106-118: the two early returns
ConnectSkipsWhenConnected(c) == c.isConnected
ConnectSkips(c) == c.connecting \/ c.isConnected

\* the Socket object the next io() call creates
Unused(ss) == {k \in SocketIds : ss[k].state = "none"}
NewSocket(ss) == CHOOSE k \in Unused(ss) : \A j \in Unused(ss) : k <= j

\* connect(), lines 118-162: this.connecting, this.socket = io(...), and
\* setupSocketEvents() (lines 191-306), which registers its handlers on the
\* first socket only: it returns early once this.eventsSetup is set
NmAfterConnect(c, ss) ==
    IF ConnectSkips(c) THEN c
    ELSE [c EXCEPT !.connecting = TRUE, !.socket = NewSocket(ss), !.eventsSetup = TRUE]
SocketsAfterConnect(c, ss) ==
    IF ConnectSkips(c) THEN ss
    ELSE [ss EXCEPT ![NewSocket(ss)] = [state |-> "opening", events |-> ~c.eventsSetup,
                                        timeout |-> cnow + ConnectTimeoutMs, id |-> NoToken]]

\* the 'disconnect' handler of lines 202-217, registered by setupSocketEvents
AfterDisconnectEvent(c) == [c EXCEPT !.isConnected = FALSE]
ScheduleEveryTime(timers, reason) == Append(timers, cnow + ReconnectDelayMs)
ScheduleReconnect(timers, reason) ==
    IF reason # "io client disconnect" THEN Append(timers, cnow + ReconnectDelayMs) ELSE timers

\* startHeartbeat() and stopHeartbeat(), lines 171-189: this.heartbeatInterval
\* is the handle of the timer started last, the last one of hb
AllButLast(hb) == SubSeq(hb, 1, Len(hb) - 1)
StartHeartbeatKeepingOld(c, hb) == Append(hb, cnow + HeartbeatMs)
StartHeartbeat(c, hb) == Append(IF c.heartbeatInterval THEN AllButLast(hb) ELSE hb, cnow + HeartbeatMs)
StopHeartbeat(c, hb) == IF c.heartbeatInterval THEN AllButLast(hb) ELSE hb

\* if (!this.socket || !this.isConnected) return, lines 324 and 341
CanEmit(c) == c.socket # NoSocket /\ c.isConnected

\* this.socket.emit(ev, data): the event leaves on the connection socket.id names
\* ("" when this.socket is not connected: socket.io keeps such an event back,
\* and the model does not follow it further)
ClientEmit(ev, data) == [ev |-> ev, from |-> sockets[nm.socket].id, data |-> data]

\* the debounce test of line 347
ThrottledNever(c) == FALSE
Throttled(c) == c.lastPositionUpdate # 0 /\ cnow - c.lastPositionUpdate < ThrottleMs

\* the joinData object of lines 330-333, for playerData = {}
JoinRequest(c) == [sessionId |-> c.sessionId, name |-> NoName, rotation |-> NoRotation]

\* the positionData object of lines 352-356
PositionData(c, position) ==
    [playerId |-> c.playerId, position |-> position, rotation |-> NoRotation, timestamp |-> cnow]

\* the debounce test of line 347 and the positionData of lines 351-355, at time at
ThrottledAt(c, at) == c.lastPositionUpdate # 0 /\ at - c.lastPositionUpdate < ThrottleMs
PositionDataAt(c, position, at) ==
    [playerId |-> c.playerId, position |-> position, rotation |-> NoRotation, timestamp |-> at]

\* Player.js.  The page's player walks along the x axis: targetPosition.z and
\* position.z are 0, so that distanceTo is |dx| and the normalised direction its sign.
\* new Player(), lines 4-19
NoTarget == [x |-> 0, y |-> -1, z |-> 0]
PagePlayer == [position |-> [x |-> 0, y |-> 0, z |-> 0], targetPosition |-> NoTarget,
              isMoving |-> FALSE, lastNetworkUpdate |-> 0]
\* the places a click can send the player to, and the times between two frames
MoveTargets == {[x |-> 60, y |-> 0, z |-> 0], [x |-> -180, y |-> 0, z |-> 0]}
FrameMs == {20, 60}
\* this.position.distanceTo(this.targetPosition), line 348
DistanceTo(p, q) == IF q.x >= p.x THEN q.x - p.x ELSE p.x - q.x
\* this.moveSpeed * deltaTime (line 380) for a frame of d milliseconds
MoveDistance(d) == (MoveSpeed * PositionUnits * d) \div 1000
\* lines 376-384: one step of moveDistance towards the target
StepTowards(p, q, d) ==
    [p EXCEPT !.x = IF q.x > p.x THEN @ + MoveDistance(d)
                    ELSE IF q.x < p.x THEN @ - MoveDistance(d) ELSE @]
\* the throttle of line 390
UpdateDue(pl, at) == pl.lastNetworkUpdate = 0 \/ at - pl.lastNetworkUpdate > NetworkUpdateMs

\* the 'player_move' handler's filter, line 248
OwnMoveNever(c, data) == FALSE
OwnMove(c, data) == data.playerId = c.playerId

\* GameEngine.addOtherPlayer, lines 1430-1468: a new mesh at the player's position
AddOtherPlayer(mirror, playerData) ==
    IF playerData.id \in DOMAIN mirror THEN mirror
    ELSE MapSet(mirror, playerData.id, [position |-> playerData.position, rotation |-> ZeroRotation])

\* GameEngine.removeOtherPlayer, lines 1471-1478
RemoveOtherPlayer(mirror, playerId) ==
    IF playerId \in DOMAIN mirror THEN MapDelete(mirror, playerId) ELSE mirror

\* GameEngine.updateOtherPlayer, lines 1481-1492
UpdateOtherPlayer(mirror, data) ==
    IF data.playerId \in DOMAIN mirror
    THEN [mirror EXCEPT ![data.playerId] =
             [position |-> data.position,
              rotation |-> IF data.rotation = NoRotation THEN @.rotation ELSE data.rotation]]
    ELSE mirror

\* GameEngine.handleWorldStateUpdate, lines 1400-1418: addOtherPlayer for every
\* listed player but the one with the id getPlayerId() returns
HandleWorldStateUpdate(mirror, worldData, ownId) ==
    LET others == {pl \in worldData.players : pl.id # ownId /\ pl.id \notin DOMAIN mirror}
    IN [id \in DOMAIN mirror \cup {pl.id : pl \in others} |->
           IF id \in DOMAIN mirror THEN mirror[id]
           ELSE LET pl == CHOOSE q \in others : q.id = id
                IN [position |-> pl.position, rotation |-> ZeroRotation]]

\* the 'player_joined' handler, lines 289-302
AfterPlayerJoined(c, data) ==
    IF data.success THEN [c EXCEPT !.playerId = data.player.id, !.sessionId = data.sessionId] ELSE c
StoreAfterPlayerJoined(stored, data) ==
    IF data.success /\ data.sessionId # NoToken THEN data.sessionId ELSE stored

\* the events one server handler emitted, as they travel to the client's sockets
RECURSIVE Fanout(_, _)
Fanout(e, ts) ==
    IF ts = {} THEN <<>>
    ELSE LET t == CHOOSE x \in ts : TRUE
         IN <<[ev |-> e.ev, to |-> t, data |-> e.data]>> \o Fanout(e, ts \ {t})
RECURSIVE ToClient(_)
ToClient(es) ==
    IF es = <<>> THEN <<>>
    ELSE Fanout(Head(es), Head(es).to \cap ClientTransports) \o ToClient(Tail(es))

\* -------------------------------------------------------------------- Init
Init ==
    /\ conn = [t \in Transports |-> "fresh"]
    /\ players = EmptyMap
    /\ playerSessions = EmptyMap
    /\ worldTime = [time |-> InitialTime, cycleSpeed |-> CycleSpeedUnits, lastUpdate |-> 0]
    /\ now = 0
    /\ lastEvent = [ev |-> "start"]
    /\ emitted = <<>>
    /\ issued = [t \in Transports |-> NoToken]
    /\ steps = 0
    /\ nm = NmInit(Constructor, NoToken)
    /\ sockets = [k \in SocketIds |-> NoSocketYet]
    /\ reconnectTimers = <<>>
    /\ localStorage = NoToken
    /\ cnow = PageLoadedAt
    /\ enginePlayers = EmptyMap
    /\ history = NoHistory
    /\ csteps = 0
    /\ inbox = <<>>
    /\ outbox = <<>>
    /\ shutdown = "running"
    /\ heartbeats = <<>>
    /\ localPlayer = PagePlayer

\* one more event or clock step, while the run is within its length bound
Budget == steps < MaxSteps /\ steps' = steps + 1

\* time passes: Date.now() grows by one clock step; no handler runs
Elapse ==
    /\ Budget
    /\ now < MaxNow
    /\ now' = now + 1
    /\ lastEvent' = [ev |-> "elapse"]
    /\ emitted' = <<>>
    /\ UNCHANGED <<conn, players, playerSessions, worldTime, issued>>

\* io.on('connection'), lines 2611-2616: a new socket id is connected and gets its handlers
Connection(t) ==
    /\ Budget
    /\ conn[t] = "fresh"
    /\ conn' = [conn EXCEPT ![t] = "open"]
    /\ lastEvent' = [ev |-> "connection", socket |-> t]
    /\ emitted' = <<>>
    /\ UNCHANGED <<players, playerSessions, worldTime, now, issued>>

\* socket.on('player_join'), lines 2619-2707.  Math.random() is called only on
\* the paths that need it: for a generated id, and for a spawn position.  The
\* player_join broadcast sends the record itself; its sessions Set is serialised
\* as an empty object, so the payload is the record without its sessions.
PlayerJoin(t, playerData) ==
    /\ Budget
    /\ conn[t] = "open"
    /\ \E generated \in (IF playerData.sessionId = NoToken THEN GeneratedIds ELSE {NoToken}) :
       LET isNewPlayer == IsNewPlayer(playerData)
           playerId == IF playerData.sessionId = NoToken THEN generated ELSE playerData.sessionId
           found == playerId \in DOMAIN players
       IN \E startX \in (IF found THEN {0} ELSE SpawnX), startZ \in (IF found THEN {0} ELSE SpawnZ) :
             LET before == LookupOrCreate(playerId, playerData, startX, startZ)
                 player == [before EXCEPT !.sessions = @ \cup {t}]
                 store == MapSet(players, playerId, player)
             IN /\ players' = store
                /\ playerSessions' = MapSet(playerSessions, t, playerId)
                /\ issued' = [issued EXCEPT ![t] = playerId]
                /\ emitted' = (IF isNewPlayer THEN <<BroadcastEmit(t, "player_join", StripSessions(player))>> ELSE <<>>)
                              \o <<SocketEmit(t, "world_state", WorldState(store, worldTime)),
                                   SocketEmit(t, "player_joined", JoinedConfirmation(player, playerId))>>
                /\ lastEvent' = [ev |-> "player_join", socket |-> t, sessionId |-> playerData.sessionId,
                                 playerId |-> playerId, isNewPlayer |-> isNewPlayer, found |-> found]
    /\ UNCHANGED <<conn, worldTime, now>>

\* socket.on('player_move'), lines 2710-2731
PlayerMove(t, data) ==
    /\ Budget
    /\ conn[t] = "open"
    /\ lastEvent' = [ev |-> "player_move", socket |-> t, data |-> data]
    /\ LET playerId == Resolve(t)
       IN IF playerId # NoToken /\ playerId \in DOMAIN players
          THEN /\ players' = [players EXCEPT ![playerId].position = data.position,
                                             ![playerId].rotation = data.rotation]
               /\ emitted' = <<BroadcastEmit(t, "player_move", MovePayload(t, playerId, data))>>
          ELSE /\ emitted' = <<>>
               /\ UNCHANGED players
    /\ UNCHANGED <<conn, playerSessions, worldTime, now, issued>>

\* socket.on('chat_message'), lines 2763-2783
ChatMessage(t, data) ==
    /\ Budget
    /\ conn[t] = "open"
    /\ lastEvent' = [ev |-> "chat_message", socket |-> t, data |-> data]
    /\ LET playerId == Resolve(t)
       IN IF playerId # NoToken /\ playerId \in DOMAIN players
          THEN emitted' = <<IoEmit("chat_message",
                               [playerId |-> playerId, playerName |-> players[playerId].name,
                                message |-> data.message, channel |-> ChannelOf(data),
                                timestamp |-> data.timestamp])>>
          ELSE emitted' = <<>>
    /\ UNCHANGED <<conn, players, playerSessions, worldTime, now, issued>>

\* socket.on('heartbeat'), lines 2757-2760
Heartbeat(t, data) ==
    /\ Budget
    /\ conn[t] = "open"
    /\ lastEvent' = [ev |-> "heartbeat", socket |-> t]
    /\ emitted' = <<SocketEmit(t, "heartbeat_ack", [timestamp |-> data.timestamp])>>
    /\ UNCHANGED <<conn, players, playerSessions, worldTime, now, issued>>

\* socket.on('disconnect'), lines 2801-2830.  socket.io has taken the socket out
\* of the namespace before the handler runs.
Disconnect(t) ==
    /\ Budget
    /\ conn[t] = "open"
    /\ conn' = [conn EXCEPT ![t] = "closed"]
    /\ LET playerId == Resolve(t)
       IN /\ lastEvent' = [ev |-> "disconnect", socket |-> t, playerId |-> playerId]
          /\ IF playerId # NoToken /\ playerId \in DOMAIN players
             THEN LET player == [players[playerId] EXCEPT !.sessions = @ \ {t}]
                  IN /\ playerSessions' = MapDelete(playerSessions, t)
                     /\ players' = IF LastSessionGone(player)
                                   THEN MapDelete(players, playerId)
                                   ELSE MapSet(players, playerId, player)
                     /\ emitted' = LeaveEmits(t, playerId, player)
             ELSE /\ emitted' = <<>>
                  /\ UNCHANGED <<players, playerSessions>>
    /\ UNCHANGED <<worldTime, now, issued>>

\* gameState.worldTime.time += cycleSpeed * deltaTime * 60, set to 0 at 1.0 (lines 2589-2597)
AdvanceTimeUnwrapped(wt, deltaMs) == wt.time + (wt.cycleSpeed * deltaMs * 60) \div 1000
AdvanceTimeStuckAtWrap(wt, deltaMs) ==
    LET sum == wt.time + (wt.cycleSpeed * deltaMs * 60) \div 1000
    IN IF sum >= TimeUnits THEN wt.time ELSE sum
AdvanceTime(wt, deltaMs) ==
    LET sum == wt.time + (wt.cycleSpeed * deltaMs * 60) \div 1000
    IN IF sum >= TimeUnits THEN 0 ELSE sum

\* if (gameState.players.size > 0) io.emit('world_time_update', ...) (lines 2602-2607)
TimeUpdateAlways(time) == <<IoEmit("world_time_update", [time |-> time, timestamp |-> now])>>
TimeUpdate(time) ==
    IF Cardinality(DOMAIN players) > 0
    THEN <<IoEmit("world_time_update", [time |-> time, timestamp |-> now])>>
    ELSE <<>>

\* the setInterval callback of lines 2587-2608; the timer fires one period or
\* more after the previous run
TickHandler ==
    /\ now > worldTime.lastUpdate
    /\ LET deltaMs == (now - worldTime.lastUpdate) * MsPerStep
           time == AdvanceTime(worldTime, deltaMs)
       IN /\ worldTime' = [worldTime EXCEPT !.time = time, !.lastUpdate = now]
          /\ emitted' = TimeUpdate(time)
    /\ lastEvent' = [ev |-> "tick"]

Tick ==
    /\ Budget
    /\ TickHandler
    /\ UNCHANGED <<conn, players, playerSessions, now, issued>>

\* the server on its own: no client of the model takes a step
ClientIdle == UNCHANGED <<cvars, net>>

\* no signal reaches the server process
NoSignal == UNCHANGED shutdown

Next ==
    \/ Elapse /\ ClientIdle /\ NoSignal
    \/ Tick /\ ClientIdle /\ NoSignal
    \/ \E t \in Transports : Connection(t) /\ ClientIdle /\ NoSignal
    \/ \E t \in Transports, d \in JoinData : PlayerJoin(t, d) /\ ClientIdle /\ NoSignal
    \/ \E t \in Transports, d \in MoveData : PlayerMove(t, d) /\ ClientIdle /\ NoSignal
    \/ \E t \in Transports, d \in ChatData : ChatMessage(t, d) /\ ClientIdle /\ NoSignal
    \/ \E t \in Transports : Disconnect(t) /\ ClientIdle /\ NoSignal

Spec == Init /\ [][Next]_vars

\* ------------------------------------------------- the clock over many periods
\* The world clock needs eleven periods to come round from 0.35.  ClockSpec runs
\* the same tick handler with its own bound on Date.now(), next to the joins
\* and departures of one socket, which decide whether a tick broadcasts.

\* the socket whose joins and departures ClockSpec follows
ClockTransports == {"s1"}

\* time passes; the timer callback is at most MaxTickDelay periods late
ClockElapse ==
    /\ now < MaxClockNow
    /\ now - worldTime.lastUpdate < MaxTickDelay
    /\ now' = now + 1
    /\ lastEvent' = [ev |-> "elapse"]
    /\ emitted' = <<>>
    /\ UNCHANGED <<conn, players, playerSessions, worldTime, issued, steps>>

ClockTick ==
    /\ TickHandler
    /\ UNCHANGED <<conn, players, playerSessions, now, issued, steps>>

ClockNext ==
    \/ ClockElapse /\ ClientIdle /\ NoSignal
    \/ ClockTick /\ ClientIdle /\ NoSignal
    \/ \E t \in ClockTransports : Connection(t) /\ ClientIdle /\ NoSignal
    \/ \E t \in ClockTransports, d \in JoinData : PlayerJoin(t, d) /\ ClientIdle /\ NoSignal
    \/ \E t \in ClockTransports : Disconnect(t) /\ ClientIdle /\ NoSignal

ClockSpec == Init /\ [][ClockNext]_vars

\* --------------------------------------------- one browser client and the server
\* SessionSpec runs the page's NetworkManager and GameEngine mirror against the
\* server's handlers.  What the client emits waits in outbox until the server
\* handles it; what the server emits to one of the client's sockets waits in
\* inbox until the client handles it.  Events travel in order and fast: one in
\* flight is handled before the page, the network or the other client takes its
\* next step.  The server may still hold a connection that the page has lost.
\* One more client (PeerTransports) acts on the server directly.

\* no event is in flight
Quiet == inbox = <<>> /\ outbox = <<>>

\* the run is within its length bound
SessionBudget == steps + csteps < MaxSessionSteps

\* one more client step, while the run is within its length bounds
ClientBudget == Quiet /\ SessionBudget /\ csteps < MaxClientSteps /\ csteps' = csteps + 1

\* the due times of the pending timers of the page
PendingTimers ==
    {reconnectTimers[i] : i \in DOMAIN reconnectTimers}
        \cup {sockets[k].timeout : k \in {j \in SocketIds : sockets[j].timeout # 0}}
        \cup {heartbeats[i] : i \in DOMAIN heartbeats}

\* Date.now() after d more milliseconds, or at the next due timer if that is earlier
TimeAfter(d) ==
    IF \E due \in PendingTimers : due < cnow + d
    THEN CHOOSE due \in PendingTimers : \A other \in PendingTimers : due <= other
    ELSE cnow + d

\* time passes in the browser; a timer runs when it is due
ClientElapse(d) ==
    /\ ClientBudget
    /\ \A due \in PendingTimers : cnow < due
    /\ cnow' = TimeAfter(d)
    /\ lastEvent' = [ev |-> "elapse"]
    /\ emitted' = <<>>
    /\ UNCHANGED <<svars, heartbeats, localPlayer, net, nm, sockets, reconnectTimers, localStorage, enginePlayers, history>>

\* NetworkManager.connect(), lines 106-168, up to the return of the Promise;
\* GameEngine.start() calls it when the page has loaded
NmConnect ==
    /\ ClientBudget
    /\ ConnectSkips(nm) \/ Unused(sockets) # {}
    /\ nm' = NmAfterConnect(nm, sockets)
    /\ sockets' = SocketsAfterConnect(nm, sockets)
    /\ lastEvent' = [ev |-> "connect()", skipped |-> ConnectSkips(nm)]
    /\ emitted' = <<>>
    /\ UNCHANGED <<svars, heartbeats, localPlayer, net, reconnectTimers, localStorage, cnow, enginePlayers, history>>

\* the first client socket id the server has not given out yet
FreshTransports == {t \in ClientTransports : conn[t] = "fresh"}
NextTransport ==
    LET fresh == {i \in 1..MaxTransports : "s" \o ToString(i) \in FreshTransports}
    IN "s" \o ToString(CHOOSE i \in fresh : \A j \in fresh : i <= j)

\* the 'connect' handler of lines 142-154, on socket k with socket.id t.  It
\* reads this.socket.id: of the socket connect() created last, which is
\* undefined while that one is not connected, and throws when this.socket is null
OnConnect(k, t) ==
    LET ss == [sockets EXCEPT ![k] = [@ EXCEPT !.state = "connected", !.timeout = 0, !.id = t]]
        c == [nm EXCEPT !.isConnected = TRUE, !.connecting = FALSE]
    IN /\ sockets' = ss
       /\ nm' = IF nm.socket = NoSocket THEN c
                ELSE [c EXCEPT !.playerId = ss[nm.socket].id, !.heartbeatInterval = TRUE]
       /\ heartbeats' = IF nm.socket = NoSocket THEN heartbeats ELSE StartHeartbeat(nm, heartbeats)

\* a socket of the page gets through, on its first attempt or on one of the
\* Manager's (reconnection: true): the server's connection handler runs, then
\* the socket's 'connect' event
Handshake(k) ==
    /\ Quiet
    /\ SessionBudget
    /\ sockets[k].state \in {"opening", "down"}
    /\ FreshTransports # {}
    /\ Connection(NextTransport)
    /\ OnConnect(k, NextTransport)
    /\ UNCHANGED <<localPlayer, net, reconnectTimers, localStorage, cnow, enginePlayers, history, csteps>>

\* an attempt of socket k fails: the 'connect_error' handler of lines 156-161
\* (the one of lines 219-221 only logs)
SocketConnectError(k) ==
    /\ ClientBudget
    /\ sockets[k].state \in {"opening", "down"}
    /\ sockets' = [sockets EXCEPT ![k] = [@ EXCEPT !.state = "down", !.timeout = 0]]
    /\ nm' = [nm EXCEPT !.connecting = FALSE]
    /\ lastEvent' = [ev |-> "connect_error", socket |-> k]
    /\ emitted' = <<>>
    /\ UNCHANGED <<svars, heartbeats, localPlayer, net, reconnectTimers, localStorage, cnow, enginePlayers, history>>

\* the setTimeout callback of lines 137-140
ConnectTimeout(k) ==
    /\ ClientBudget
    /\ sockets[k].timeout # 0
    /\ sockets[k].timeout <= cnow
    /\ sockets' = [sockets EXCEPT ![k] = [@ EXCEPT !.timeout = 0]]
    /\ nm' = [nm EXCEPT !.connecting = FALSE]
    /\ lastEvent' = [ev |-> "connect timeout", socket |-> k]
    /\ emitted' = <<>>
    /\ UNCHANGED <<svars, heartbeats, localPlayer, net, reconnectTimers, localStorage, cnow, enginePlayers, history>>

\* socket k loses its connection without the page asking for it.  The handler
\* of lines 202-217 runs if setupSocketEvents registered it on this socket.
SocketDisconnect(k, reason) ==
    /\ ClientBudget
    /\ sockets[k].state = "connected"
    /\ sockets' = [sockets EXCEPT ![k] = [@ EXCEPT !.state = "down", !.id = NoToken]]
    /\ IF sockets[k].events
       THEN /\ nm' = AfterDisconnectEvent(nm)
            /\ reconnectTimers' = ScheduleReconnect(reconnectTimers, reason)
       ELSE UNCHANGED <<nm, reconnectTimers>>
    /\ history' = [history EXCEPT !.lost = @ \/ history.attached # NoToken]
    /\ lastEvent' = [ev |-> "disconnect event", socket |-> k, reason |-> reason]
    /\ emitted' = <<>>
    /\ UNCHANGED <<svars, heartbeats, localPlayer, net, localStorage, cnow, enginePlayers>>

\* NetworkManager.disconnect(), lines 308-320.  socket.disconnect() closes the
\* socket for good and, if it was connected, fires its 'disconnect' event with
\* reason 'io client disconnect' before it returns.
NmDisconnect ==
    /\ ClientBudget
    /\ LET k == nm.socket
           fired == k # NoSocket /\ sockets[k].state = "connected" /\ sockets[k].events
       IN /\ sockets' = IF k = NoSocket THEN sockets
                        ELSE [sockets EXCEPT ![k] = [@ EXCEPT !.state = "closed", !.id = NoToken]]
          /\ reconnectTimers' = IF fired THEN ScheduleReconnect(reconnectTimers, "io client disconnect")
                                ELSE reconnectTimers
          /\ nm' = [nm EXCEPT !.socket = NoSocket, !.isConnected = FALSE,
                              !.playerId = NoToken, !.heartbeatInterval = FALSE]
    /\ heartbeats' = StopHeartbeat(nm, heartbeats)
    /\ UNCHANGED localPlayer
    /\ history' = [history EXCEPT !.attached = NoToken, !.lost = FALSE]
    /\ lastEvent' = [ev |-> "disconnect()"]
    /\ emitted' = <<>>
    /\ UNCHANGED <<svars, net, localStorage, cnow, enginePlayers>>

\* the setTimeout callback of lines 210-215
ReconnectTimer ==
    /\ ClientBudget
    /\ reconnectTimers # <<>>
    /\ Head(reconnectTimers) <= cnow
    /\ nm.isConnected \/ ConnectSkips(nm) \/ Unused(sockets) # {}
    /\ reconnectTimers' = Tail(reconnectTimers)
    /\ IF ~nm.isConnected
       THEN /\ nm' = NmAfterConnect(nm, sockets)
            /\ sockets' = SocketsAfterConnect(nm, sockets)
       ELSE UNCHANGED <<nm, sockets>>
    /\ lastEvent' = [ev |-> "reconnect timer", called |-> ~nm.isConnected]
    /\ emitted' = <<>>
    /\ UNCHANGED <<svars, heartbeats, localPlayer, net, localStorage, cnow, enginePlayers, history>>

\* the setInterval callback of lines 176-180
HeartbeatTimer(i) ==
    /\ ClientBudget
    /\ i \in DOMAIN heartbeats
    /\ heartbeats[i] <= cnow
    /\ heartbeats' = [heartbeats EXCEPT ![i] = cnow + HeartbeatMs]
    /\ UNCHANGED localPlayer
    /\ outbox' = IF CanEmit(nm) THEN Append(outbox, ClientEmit("heartbeat", [timestamp |-> cnow])) ELSE outbox
    /\ lastEvent' = [ev |-> "heartbeat timer", sent |-> CanEmit(nm)]
    /\ emitted' = <<>>
    /\ UNCHANGED <<svars, inbox, nm, sockets, reconnectTimers, localStorage, cnow, enginePlayers, history>>

\* NetworkManager.joinWorld(), lines 323-337
NmJoinWorld ==
    /\ ClientBudget
    /\ outbox' = IF CanEmit(nm) THEN Append(outbox, ClientEmit("player_join", JoinRequest(nm))) ELSE outbox
    /\ lastEvent' = [ev |-> "joinWorld()", sent |-> CanEmit(nm), sessionId |-> nm.sessionId]
    /\ emitted' = <<>>
    /\ UNCHANGED <<svars, heartbeats, localPlayer, inbox, nm, sockets, reconnectTimers, localStorage, cnow, enginePlayers, history>>

\* NetworkManager.sendPlayerPosition(), lines 340-361
NmSendPlayerPosition(position) ==
    /\ ClientBudget
    /\ LET sends == CanEmit(nm) /\ ~Throttled(nm)
       IN /\ outbox' = IF sends THEN Append(outbox, ClientEmit("player_move", PositionData(nm, position)))
                       ELSE outbox
          /\ nm' = IF sends THEN [nm EXCEPT !.lastPositionUpdate = cnow] ELSE nm
          /\ history' = IF sends THEN [history EXCEPT !.sent = Append(@, cnow)] ELSE history
          /\ lastEvent' = [ev |-> "sendPlayerPosition()", sent |-> sends, position |-> position]
    /\ emitted' = <<>>
    /\ UNCHANGED <<svars, heartbeats, localPlayer, inbox, sockets, reconnectTimers, localStorage, cnow, enginePlayers>>

\* the page is loaded again: the beforeunload handler of index.js (lines 218-220)
\* calls disconnect(), the old page's objects and timers are gone, and the new
\* page runs the constructor and init() (index.js, lines 84-99)
Reload ==
    /\ ClientBudget
    /\ nm' = NmInit(Constructor, localStorage)
    /\ sockets' = [k \in SocketIds |-> NoSocketYet]
    /\ reconnectTimers' = <<>>
    /\ enginePlayers' = EmptyMap
    /\ history' = [NoHistory EXCEPT !.confirmed = history.confirmed, !.reloaded = TRUE]
    /\ heartbeats' = <<>>
    /\ localPlayer' = PagePlayer
    /\ lastEvent' = [ev |-> "reload"]
    /\ emitted' = <<>>
    /\ UNCHANGED <<svars, net, localStorage, cnow>>

\* the event of inbox that is handled next reached a connected socket of the
\* page, and that socket has the handlers of setupSocketEvents
Arrived(m) == \E k \in SocketIds : sockets[k].state = "connected" /\ sockets[k].id = m.to
Heard(m) == \E k \in SocketIds : sockets[k].state = "connected" /\ sockets[k].id = m.to /\ sockets[k].events

\* the 'player_join' handler, lines 227-234, with GameEngine's onPlayerJoin (lines 1331-1339)
ReceivePlayerJoin ==
    /\ inbox # <<>>
    /\ Head(inbox).ev = "player_join"
    /\ LET m == Head(inbox)
       IN /\ enginePlayers' = IF Heard(m) THEN AddOtherPlayer(enginePlayers, m.data) ELSE enginePlayers
          /\ lastEvent' = [ev |-> "on player_join", heard |-> Heard(m)]
    /\ inbox' = Tail(inbox)
    /\ emitted' = <<>>
    /\ UNCHANGED <<svars, heartbeats, localPlayer, outbox, nm, sockets, reconnectTimers, localStorage, cnow, history, csteps>>

\* the 'player_leave' handler, lines 236-243, with GameEngine's onPlayerLeave
ReceivePlayerLeave ==
    /\ inbox # <<>>
    /\ Head(inbox).ev = "player_leave"
    /\ LET m == Head(inbox)
       IN /\ enginePlayers' = IF Heard(m) THEN RemoveOtherPlayer(enginePlayers, m.data) ELSE enginePlayers
          /\ lastEvent' = [ev |-> "on player_leave", heard |-> Heard(m)]
    /\ inbox' = Tail(inbox)
    /\ emitted' = <<>>
    /\ UNCHANGED <<svars, heartbeats, localPlayer, outbox, nm, sockets, reconnectTimers, localStorage, cnow, history, csteps>>

\* the 'player_move' handler, lines 246-260, with GameEngine's onPlayerMove (lines 1351-1354)
ReceivePlayerMove ==
    /\ inbox # <<>>
    /\ Head(inbox).ev = "player_move"
    /\ LET m == Head(inbox)
           callback == Heard(m) /\ ~OwnMove(nm, m.data)
       IN /\ enginePlayers' = IF callback THEN UpdateOtherPlayer(enginePlayers, m.data) ELSE enginePlayers
          /\ lastEvent' = [ev |-> "on player_move", heard |-> Heard(m), callback |-> callback, data |-> m.data]
    /\ inbox' = Tail(inbox)
    /\ emitted' = <<>>
    /\ UNCHANGED <<svars, heartbeats, localPlayer, outbox, nm, sockets, reconnectTimers, localStorage, cnow, history, csteps>>

\* the 'world_state' handler, lines 262-269, with GameEngine's onWorldUpdate
ReceiveWorldState ==
    /\ inbox # <<>>
    /\ Head(inbox).ev = "world_state"
    /\ LET m == Head(inbox)
       IN /\ enginePlayers' = IF Heard(m) THEN HandleWorldStateUpdate(enginePlayers, m.data, nm.playerId)
                              ELSE enginePlayers
          /\ lastEvent' = [ev |-> "on world_state", heard |-> Heard(m)]
    /\ inbox' = Tail(inbox)
    /\ emitted' = <<>>
    /\ UNCHANGED <<svars, heartbeats, localPlayer, outbox, nm, sockets, reconnectTimers, localStorage, cnow, history, csteps>>

\* the 'player_joined' handler, lines 289-302
ReceivePlayerJoined ==
    /\ inbox # <<>>
    /\ Head(inbox).ev = "player_joined"
    /\ LET m == Head(inbox)
       IN /\ nm' = IF Heard(m) THEN AfterPlayerJoined(nm, m.data) ELSE nm
          /\ localStorage' = IF Heard(m) THEN StoreAfterPlayerJoined(localStorage, m.data) ELSE localStorage
          /\ history' = IF Arrived(m) /\ m.data.success
                        THEN [history EXCEPT !.confirmed = m.data.sessionId, !.reloaded = FALSE,
                                             !.attached = m.data.player.id, !.lost = FALSE]
                        ELSE history
          /\ lastEvent' = [ev |-> "on player_joined", heard |-> Heard(m), arrived |-> Arrived(m)]
    /\ inbox' = Tail(inbox)
    /\ emitted' = <<>>
    /\ UNCHANGED <<svars, heartbeats, localPlayer, outbox, sockets, reconnectTimers, cnow, enginePlayers, csteps>>

\* the page has no handler for heartbeat_ack
ReceiveHeartbeatAck ==
    /\ inbox # <<>>
    /\ Head(inbox).ev = "heartbeat_ack"
    /\ inbox' = Tail(inbox)
    /\ lastEvent' = [ev |-> "on heartbeat_ack"]
    /\ emitted' = <<>>
    /\ UNCHANGED <<svars, cvars, outbox>>

\* the connection a client event travels on is open at the server
Reaches(m) == m.from \in Transports /\ conn[m.from] = "open"

\* the server handles the client's next player_join
ServerPlayerJoin ==
    /\ SessionBudget
    /\ outbox # <<>>
    /\ Head(outbox).ev = "player_join"
    /\ Reaches(Head(outbox))
    /\ PlayerJoin(Head(outbox).from, Head(outbox).data)
    /\ outbox' = Tail(outbox)
    /\ inbox' = inbox \o ToClient(emitted')
    /\ UNCHANGED cvars

\* the server handles the client's next player_move
ServerPlayerMove ==
    /\ SessionBudget
    /\ outbox # <<>>
    /\ Head(outbox).ev = "player_move"
    /\ Reaches(Head(outbox))
    /\ PlayerMove(Head(outbox).from, Head(outbox).data)
    /\ outbox' = Tail(outbox)
    /\ inbox' = inbox \o ToClient(emitted')
    /\ UNCHANGED cvars

\* the server handles the client's next heartbeat
ServerHeartbeat ==
    /\ SessionBudget
    /\ outbox # <<>>
    /\ Head(outbox).ev = "heartbeat"
    /\ Reaches(Head(outbox))
    /\ Heartbeat(Head(outbox).from, Head(outbox).data)
    /\ outbox' = Tail(outbox)
    /\ inbox' = inbox \o ToClient(emitted')
    /\ UNCHANGED cvars

\* an event emitted on a socket that was not connected, or whose connection the
\* server has closed since, runs no handler
ServerDrops ==
    /\ outbox # <<>>
    /\ ~Reaches(Head(outbox))
    /\ outbox' = Tail(outbox)
    /\ lastEvent' = [ev |-> "dropped"]
    /\ emitted' = <<>>
    /\ UNCHANGED <<svars, cvars, inbox>>

\* the server notices that a connection of the page is gone
ServerSeesClose(t) ==
    /\ SessionBudget
    /\ \A k \in SocketIds : sockets[k].id # t
    /\ Disconnect(t)
    /\ inbox' = inbox \o ToClient(emitted')
    /\ UNCHANGED <<cvars, outbox>>

\* the other client: another browser, or another tab of this one, which reads
\* the same localStorage.  It joins once on its connection.
PeerJoinData == {d \in JoinData : d.sessionId \in {NoToken, localStorage}}
PeerMoveData == {d \in MoveData : d.rotation # ZeroRotation}

PeerConnection(t) ==
    /\ Quiet
    /\ SessionBudget
    /\ Connection(t)
    /\ UNCHANGED <<cvars, net>>

PeerJoin(t, d) ==
    /\ Quiet
    /\ SessionBudget
    /\ d \in PeerJoinData
    /\ t \notin DOMAIN playerSessions
    /\ PlayerJoin(t, d)
    /\ inbox' = inbox \o ToClient(emitted')
    /\ UNCHANGED <<cvars, outbox>>

PeerMove(t, d) ==
    /\ Quiet
    /\ SessionBudget
    /\ PlayerMove(t, d)
    /\ inbox' = inbox \o ToClient(emitted')
    /\ UNCHANGED <<cvars, outbox>>

PeerDisconnect(t) ==
    /\ Quiet
    /\ SessionBudget
    /\ Disconnect(t)
    /\ inbox' = inbox \o ToClient(emitted')
    /\ UNCHANGED <<cvars, outbox>>

SessionNext ==
    \/ \E d \in ClientDelays : ClientElapse(d)
    \/ NmConnect
    \/ \E k \in SocketIds : Handshake(k) /\ NoSignal
    \/ \E k \in SocketIds : SocketConnectError(k)
    \/ \E k \in SocketIds : ConnectTimeout(k)
    \/ \E k \in SocketIds, reason \in DisconnectReasons : SocketDisconnect(k, reason)
    \/ NmDisconnect
    \/ ReconnectTimer
    \/ \E i \in 1..MaxTransports : HeartbeatTimer(i)
    \/ NmJoinWorld
    \/ \E position \in ClientPositions : NmSendPlayerPosition(position)
    \/ Reload
    \/ ReceivePlayerJoin
    \/ ReceivePlayerLeave
    \/ ReceivePlayerMove
    \/ ReceiveWorldState
    \/ ReceivePlayerJoined
    \/ ReceiveHeartbeatAck
    \/ ServerPlayerJoin /\ NoSignal
    \/ ServerPlayerMove /\ NoSignal
    \/ ServerHeartbeat /\ NoSignal
    \/ ServerDrops
    \/ \E t \in ClientTransports : ServerSeesClose(t) /\ NoSignal
    \/ \E t \in PeerTransports : PeerConnection(t) /\ NoSignal
    \/ \E t \in PeerTransports, d \in JoinData : PeerJoin(t, d) /\ NoSignal
    \/ \E t \in PeerTransports, d \in PeerMoveData : PeerMove(t, d) /\ NoSignal
    \/ \E t \in PeerTransports : PeerDisconnect(t) /\ NoSignal

SessionSpec == Init /\ [][SessionNext]_vars

\* ------------------------------------------------------------- movement
\* MoveSpec runs the page's own player next to the connection, the join and
\* the server's handlers of the page's events.

\* Player.moveToPosition(), lines 497-548, for a walkable target: a click on the ground
MoveToPosition(target) ==
    /\ ClientBudget
    /\ localPlayer' = [localPlayer EXCEPT !.targetPosition = target, !.isMoving = TRUE]
    /\ history' = [history EXCEPT !.movedAs = history.attached, !.arrived = FALSE]
    /\ lastEvent' = [ev |-> "moveToPosition()", target |-> target]
    /\ emitted' = <<>>
    /\ UNCHANGED <<svars, heartbeats, net, nm, sockets, reconnectTimers, localStorage, cnow, enginePlayers>>

\* one animation frame, d milliseconds after the one before: Player.update()
\* calls updateMovement (lines 344-399), which returns at once unless the
\* player is moving.  It calls sendPlayerPosition (part_002, lines 340-361)
\* when the player stops and, at most every NetworkUpdateMs, while it moves.
Frame(d) ==
    /\ ClientBudget
    /\ localPlayer.isMoving
    /\ \A due \in PendingTimers : cnow + d < due
    /\ cnow' = cnow + d
    /\ LET at == cnow + d
           pl == localPlayer
           stops == DistanceTo(pl.position, pl.targetPosition) < StopDistance
           position == IF stops THEN pl.position ELSE StepTowards(pl.position, pl.targetPosition, d)
           calls == nm.isConnected /\ (stops \/ UpdateDue(pl, at))
           sends == calls /\ CanEmit(nm) /\ ~ThrottledAt(nm, at)
       IN /\ localPlayer' = IF stops THEN [pl EXCEPT !.isMoving = FALSE, !.targetPosition = NoTarget]
                             ELSE [pl EXCEPT !.position = position,
                                             !.lastNetworkUpdate = IF calls THEN at ELSE @]
          /\ outbox' = IF sends
                        THEN Append(outbox, ClientEmit("player_move", PositionDataAt(nm, position, at)))
                        ELSE outbox
          /\ nm' = IF sends THEN [nm EXCEPT !.lastPositionUpdate = at] ELSE nm
          /\ history' = [history EXCEPT !.sent = IF sends THEN Append(@, at) ELSE @,
                                        !.arrived = stops]
          /\ lastEvent' = [ev |-> "frame", stopped |-> stops, called |-> calls, sent |-> sends]
    /\ emitted' = <<>>
    /\ UNCHANGED <<svars, heartbeats, inbox, sockets, reconnectTimers, localStorage, enginePlayers>>

MoveNext ==
    \/ NmConnect
    \/ \E k \in SocketIds : Handshake(k) /\ NoSignal
    \/ NmJoinWorld
    \/ ReceiveWorldState
    \/ ReceivePlayerJoined
    \/ ServerPlayerJoin /\ NoSignal
    \/ ServerPlayerMove /\ NoSignal
    \/ \E target \in MoveTargets : MoveToPosition(target)
    \/ \E d \in FrameMs : Frame(d)

MoveSpec == Init /\ [][MoveNext]_vars

\* ------------------------------------------------------------- shutdown
\* ShutdownSpec runs the server's handlers and its timer next to the handlers
\* of SIGTERM and SIGINT (lines 3167-3181).  Both call server.close(callback):
\* the HTTP server stops listening, and the callback, which calls
\* process.exit(0), runs once no connection is open any more.

\* the state of the process after server.close(), with the sockets in open still connected
AfterClose(open) == IF open = {} THEN "exited" ELSE "closing"

\* process.on('SIGTERM') and process.on('SIGINT'), lines 3167-3181
Signal ==
    /\ Budget
    /\ shutdown' = AfterClose(Connected)
    /\ lastEvent' = [ev |-> "signal"]
    /\ emitted' = <<>>
    /\ UNCHANGED <<conn, players, playerSessions, worldTime, now, issued, cvars, net>>

\* a socket disconnects; the callback of server.close() runs if it was the last one
ShutdownDisconnect(t) ==
    /\ Disconnect(t)
    /\ shutdown' = IF shutdown = "closing" THEN AfterClose(Connected \ {t}) ELSE shutdown
    /\ ClientIdle

\* a server that is closing accepts no new connection
ShutdownNext ==
    \/ shutdown # "exited" /\ Signal
    \/ shutdown # "exited" /\ Elapse /\ ClientIdle /\ NoSignal
    \/ shutdown # "exited" /\ Tick /\ ClientIdle /\ NoSignal
    \/ \E t \in Transports : shutdown = "running" /\ Connection(t) /\ ClientIdle /\ NoSignal
    \/ \E t \in Transports, d \in JoinData : shutdown # "exited" /\ PlayerJoin(t, d) /\ ClientIdle /\ NoSignal
    \/ \E t \in Transports : shutdown # "exited" /\ ShutdownDisconnect(t)

ShutdownSpec == Init /\ [][ShutdownNext]_vars

\* ------------------------------------------------------------------ claims

\* the handler of the last step emitted an event named ev
Emitted(ev) == \E i \in DOMAIN emitted : emitted[i].ev = ev

\* C1: a record is in gameState.players if and only if its sessions set is
\* non-empty: after every handler each stored record has a session, and a record
\* leaves the store only in the disconnect handler that removed its last session.
C1_RecordIffSessions ==
    [][ /\ \A p \in DOMAIN players' : players'[p].sessions # {}
        /\ \A p \in DOMAIN players \ DOMAIN players' :
              /\ lastEvent'.ev = "disconnect"
              /\ players[p].sessions \ {lastEvent'.socket} = {} ]_vars

\* a disconnect has emptied a record, which is gone, while another record stays
C1_Witness ==
    /\ lastEvent.ev = "disconnect"
    /\ lastEvent.playerId # NoToken
    /\ lastEvent.playerId \notin DOMAIN players
    /\ DOMAIN players # {}

\* C2: player_leave for p is broadcast exactly when a disconnect empties
\* p.sessions; a disconnect that leaves p another session keeps the record, with
\* that session removed, and broadcasts nothing.
C2_LeaveOnLastSession ==
    [][ /\ (\E i \in DOMAIN emitted' : emitted'[i].ev = "player_leave") => lastEvent'.ev = "disconnect"
        /\ (lastEvent'.ev = "disconnect" /\ lastEvent'.playerId \notin DOMAIN players) => emitted' = <<>>
        /\ (lastEvent'.ev = "disconnect" /\ lastEvent'.playerId \in DOMAIN players) =>
              LET t == lastEvent'.socket
                  p == lastEvent'.playerId
                  rest == players[p].sessions \ {t}
              IN IF rest = {}
                 THEN /\ p \notin DOMAIN players'
                      /\ emitted' = <<[ev |-> "player_leave",
                                       to |-> {s \in Transports : conn'[s] = "open"},
                                       data |-> p]>>
                 ELSE /\ p \in DOMAIN players'
                      /\ players'[p].sessions = rest
                      /\ emitted' = <<>> ]_vars

\* the first of two transports of one player has disconnected: the player is
\* still there with its other, open transport and nothing was broadcast
C2_Witness ==
    /\ lastEvent.ev = "disconnect"
    /\ lastEvent.playerId \in DOMAIN players
    /\ \E t \in Transports : conn[t] = "open" /\ players[lastEvent.playerId].sessions = {t}
    /\ emitted = <<>>
    /\ Cardinality(Connected) = 2

\* C3: a join whose sessionId names a stored record adds the socket to that
\* record's sessions and changes nothing else in gameState.players.
C3_AttachOnly ==
    [][ (lastEvent'.ev = "player_join" /\ lastEvent'.sessionId \in DOMAIN players) =>
           players' = [players EXCEPT ![lastEvent'.sessionId].sessions = @ \cup {lastEvent'.socket}] ]_vars

\* a second transport has attached to a player that had moved away from its spawn position
C3_Witness ==
    /\ lastEvent.ev = "player_join"
    /\ lastEvent.sessionId # NoToken
    /\ lastEvent.found
    /\ Cardinality(players[lastEvent.playerId].sessions) = 2
    /\ players[lastEvent.playerId].position.x \notin SpawnX
    /\ Cardinality(DOMAIN players) = 2

\* C4: a join that finds no record (no sessionId, or one that names no stored
\* record) is a new player: its id is generated, not taken from the request, and
\* player_join is broadcast to all other sockets.
C4_UnresolvedTokenIsNewPlayer ==
    (lastEvent.ev = "player_join" /\ ~lastEvent.found) =>
        /\ lastEvent.isNewPlayer
        /\ lastEvent.playerId # lastEvent.sessionId
        /\ \E i \in DOMAIN emitted :
              emitted[i].ev = "player_join" /\ emitted[i].to = Connected \ {lastEvent.socket}

\* C5: a join that presents the sessionId T issued earlier to a socket that has
\* since disconnected is not a new player: no player_join is broadcast, and the
\* socket is attached to, and confirmed as, the player with id T.
C5_RejoinKeepsIdentity ==
    (/\ lastEvent.ev = "player_join"
     /\ lastEvent.sessionId # NoToken
     /\ \E old \in Transports \ {lastEvent.socket} :
           conn[old] = "closed" /\ issued[old] = lastEvent.sessionId) =>
        LET t == lastEvent.socket
            T == lastEvent.sessionId
        IN /\ ~lastEvent.isNewPlayer
           /\ ~Emitted("player_join")
           /\ t \in DOMAIN playerSessions /\ playerSessions[t] = T
           /\ T \in DOMAIN players /\ players[T].id = T /\ t \in players[T].sessions
           /\ \E i \in DOMAIN emitted :
                 /\ emitted[i].ev = "player_joined"
                 /\ emitted[i].to = {t}
                 /\ emitted[i].data.sessionId = T
                 /\ emitted[i].data.player.id = T

\* the only transport of player T disconnected, the record was deleted, and a new
\* socket has rejoined with T while another client is connected
C5_Witness ==
    /\ lastEvent.ev = "player_join"
    /\ lastEvent.sessionId # NoToken
    /\ ~lastEvent.found
    /\ \E old \in Transports \ {lastEvent.socket} :
          conn[old] = "closed" /\ issued[old] = lastEvent.sessionId
    /\ \E other \in Connected \ {lastEvent.socket} :
          other \in DOMAIN playerSessions /\ playerSessions[other] # lastEvent.sessionId

\* C6 as claimed: a join without sessionId gets an id that no stored record has,
\* is confirmed with that id as sessionId, and is broadcast to every other socket.
C6_FreshIdOnTokenlessJoin ==
    (lastEvent.ev = "player_join" /\ lastEvent.sessionId = NoToken) =>
        /\ ~lastEvent.found
        /\ \E i \in DOMAIN emitted :
              /\ emitted[i].ev = "player_joined"
              /\ emitted[i].to = {lastEvent.socket}
              /\ emitted[i].data.sessionId = lastEvent.playerId
        /\ \E i \in DOMAIN emitted :
              emitted[i].ev = "player_join" /\ emitted[i].to = Connected \ {lastEvent.socket}

\* C6 amended: a join without sessionId generates an id; when no stored record
\* has it a record with that id is created, otherwise the socket is attached to
\* the record that has it; either way the id is the sessionId of the confirmation
\* sent to the joiner, and player_join goes to every other socket and not to the
\* joiner.
C6_TokenlessJoin ==
    [][ (lastEvent'.ev = "player_join" /\ lastEvent'.sessionId = NoToken) =>
           LET t == lastEvent'.socket
               g == lastEvent'.playerId
           IN /\ g \in GeneratedIds
              /\ IF g \in DOMAIN players
                 THEN players' = [players EXCEPT ![g].sessions = @ \cup {t}]
                 ELSE /\ DOMAIN players' = DOMAIN players \cup {g}
                      /\ players'[g].id = g
                      /\ players'[g].sessions = {t}
                      /\ \A p \in DOMAIN players : players'[p] = players[p]
              /\ Len(emitted') = 3
              /\ emitted'[1].ev = "player_join"
              /\ emitted'[1].to = Connected \ {t}
              /\ emitted'[1].data.id = g
              /\ emitted'[3].ev = "player_joined"
              /\ emitted'[3].to = {t}
              /\ emitted'[3].data.sessionId = g ]_vars

\* a join without sessionId has created a second record while other sockets are connected
C6_Witness ==
    /\ lastEvent.ev = "player_join"
    /\ lastEvent.sessionId = NoToken
    /\ ~lastEvent.found
    /\ Cardinality(DOMAIN players) = 2
    /\ Cardinality(Connected) = 3

\* C7: a disconnected socket is in no record's sessions and has no registry entry.
C7_DisconnectedTransportForgotten ==
    \A t \in Transports :
        conn[t] = "closed" =>
            /\ t \notin DOMAIN playerSessions
            /\ \A p \in DOMAIN players : t \notin players[p].sessions

\* C8: a move from a socket whose registry entry names a stored record is
\* broadcast once, to every connected socket but the sender, and carries the
\* player id the registry holds for the sender, which is no socket id.
C8_MoveBroadcast ==
    (/\ lastEvent.ev = "player_move"
     /\ lastEvent.socket \in DOMAIN playerSessions
     /\ playerSessions[lastEvent.socket] \in DOMAIN players) =>
        /\ Len(emitted) = 1
        /\ emitted[1].ev = "player_move"
        /\ emitted[1].to = Connected \ {lastEvent.socket}
        /\ emitted[1].data.playerId = playerSessions[lastEvent.socket]
        /\ emitted[1].data.playerId \notin Transports
        /\ emitted[1].data.position = lastEvent.data.position

\* a move was broadcast to another transport of the same player and to a
\* transport of another player
C8_Witness ==
    /\ lastEvent.ev = "player_move"
    /\ emitted # <<>>
    /\ \E same, other \in emitted[1].to :
          /\ same \in DOMAIN playerSessions /\ playerSessions[same] = emitted[1].data.playerId
          /\ other \in DOMAIN playerSessions /\ playerSessions[other] # emitted[1].data.playerId

\* C9: a move or chat from a socket without registry entry emits nothing and
\* changes neither the player store, the registry, the connections nor the clock.
C9_UnknownSessionDiscarded ==
    [][ (/\ lastEvent'.ev \in {"player_move", "chat_message"}
         /\ lastEvent'.socket \notin DOMAIN playerSessions) =>
           /\ emitted' = <<>>
           /\ players' = players
           /\ playerSessions' = playerSessions
           /\ conn' = conn
           /\ worldTime' = worldTime ]_vars

\* a socket that never joined has sent a move while a player with another socket is in the world
C9_Witness ==
    /\ lastEvent.ev = "player_move"
    /\ lastEvent.socket \notin DOMAIN playerSessions
    /\ DOMAIN players # {}
    /\ Cardinality(Connected) >= 2

\* C10: every join emits exactly one world_state, to the joining socket only;
\* it lists exactly the records of the store, the joiner's own among them, and
\* the current world time.
C10_SnapshotOnJoin ==
    lastEvent.ev = "player_join" =>
        /\ Cardinality({i \in DOMAIN emitted : emitted[i].ev = "world_state"}) = 1
        /\ \A i \in DOMAIN emitted :
              emitted[i].ev = "world_state" =>
                 /\ emitted[i].to = {lastEvent.socket}
                 /\ {pl.id : pl \in emitted[i].data.players} = DOMAIN players
                 /\ lastEvent.playerId \in {pl.id : pl \in emitted[i].data.players}
                 /\ \A pl \in emitted[i].data.players :
                       /\ pl.position = players[pl.id].position
                       /\ pl.rotation = players[pl.id].rotation
                       /\ pl.name = players[pl.id].name
                 /\ emitted[i].data.worldTime.time = worldTime.time

\* a socket has reattached to one of two stored players after the clock has ticked
C10_Witness ==
    /\ lastEvent.ev = "player_join"
    /\ lastEvent.found
    /\ Cardinality(DOMAIN players) = 2
    /\ worldTime.time # InitialTime

\* what a tick adds to the clock: cycleSpeed * deltaSeconds * 60, in units of 1/TimeUnits
OneTickAdvance == (worldTime.cycleSpeed * ((now - worldTime.lastUpdate) * MsPerStep) * 60) \div 1000

\* C18: after every tick 0 <= time < 1: the tick adds cycleSpeed * deltaSeconds * 60
\* to the time and stores 0 instead of a sum that reaches or exceeds 1.0.
C18_TimeInUnitInterval ==
    [][ lastEvent'.ev = "tick" =>
           /\ 0 <= worldTime'.time
           /\ worldTime'.time < TimeUnits
           /\ worldTime'.time = IF worldTime.time + OneTickAdvance >= TimeUnits
                                THEN 0
                                ELSE worldTime.time + OneTickAdvance ]_vars

\* a late tick has taken the clock over 1.0, and it stands at 0
C18_Witness ==
    /\ lastEvent.ev = "tick"
    /\ worldTime.time = 0
    /\ worldTime.lastUpdate > 10

\* C19: on every tick the time moves forward modulo 1.0, by no more than the
\* advance of that tick, cycleSpeed * elapsed seconds * 60; the value a tick
\* broadcasts is the time it stored, so the values of two consecutive broadcasts
\* differ by no more than that.
C19_ForwardByAtMostOneTick ==
    [][ lastEvent'.ev = "tick" =>
           LET step == (worldTime'.time - worldTime.time) % TimeUnits
           IN /\ 0 < step
              /\ step <= OneTickAdvance
              /\ \A i \in DOMAIN emitted' : emitted'[i].data.time = worldTime'.time ]_vars

\* a tick that came round to 0 from a time less than one advance below 1.0 was
\* broadcast to a joined socket
C19_Witness ==
    /\ lastEvent.ev = "tick"
    /\ worldTime.time = 0
    /\ emitted # <<>>
    /\ emitted[1].to # {}

\* sockets that are connected and have a registry entry: the connected sessions
ConnectedSessions == {t \in Connected : t \in DOMAIN playerSessions}

\* C20: a tick sends world_time_update, with the time it stored, to every
\* connected socket when at least one connected socket has joined, and sends
\* nothing to anyone when none has.
C20_TimeUpdateIffSession ==
    lastEvent.ev = "tick" =>
        IF ConnectedSessions # {}
        THEN /\ Len(emitted) = 1
             /\ emitted[1].ev = "world_time_update"
             /\ emitted[1].to = Connected
             /\ emitted[1].data.time = worldTime.time
        ELSE \A i \in DOMAIN emitted : emitted[i].to = {}

\* ------------------------------------------------------- claims of the client

\* the server has just handled a player_move that the page emitted
PageMoveHandled == lastEvent.ev = "player_move" /\ lastEvent.socket \in ClientTransports

\* C11: after an unexpected disconnect and a successful reconnection the page is
\* attached to the same player as before: when the server handles a move the
\* page emits on its new connection, the registry maps that connection to the
\* player of the page's last join confirmation, and the move is applied to it.
C11_ReattachedAfterReconnect ==
    [][ (PageMoveHandled' /\ history.lost) =>
            /\ Resolve(lastEvent'.socket) = history.attached
            /\ history.attached \in DOMAIN players'
            /\ players'[history.attached].position = lastEvent'.data.position ]_vars

\* the Socket objects a step creates
Created == {k \in SocketIds : sockets[k].state = "none" /\ sockets'[k].state # "none"}

\* C12: every unexpected disconnect event marks the client disconnected and
\* schedules exactly one reconnection attempt, due after the flat delay; the
\* timer's callback calls connect() at most once, and only if the client is still
\* disconnected; a local disconnect() schedules none.
C12_OneReconnectPerDisconnect ==
    [][ /\ lastEvent'.ev = "disconnect event" =>
              /\ reconnectTimers' = Append(reconnectTimers, cnow + ReconnectDelayMs)
              /\ ~nm'.isConnected
        /\ lastEvent'.ev = "reconnect timer" =>
              /\ Cardinality(Created) <= 1
              /\ nm.isConnected => (sockets' = sockets /\ nm' = nm)
              /\ reconnectTimers' = Tail(reconnectTimers)
        /\ lastEvent'.ev = "disconnect()" => reconnectTimers' = reconnectTimers ]_vars

\* C13: a connect() call made while another one is in flight (connecting is set)
\* or while the client is connected creates no socket and changes no field of
\* the NetworkManager, whether the page calls it or the reconnection timer does.
C13_ConnectReentrancyGuard ==
    [][ (lastEvent'.ev \in {"connect()", "reconnect timer"} /\ (nm.connecting \/ nm.isConnected)) =>
            (sockets' = sockets /\ nm' = nm) ]_vars

\* a connect() call has returned early while the socket of an earlier call was
\* still opening
C13_Witness ==
    /\ lastEvent.ev = "connect()"
    /\ lastEvent.skipped
    /\ nm.connecting
    /\ nm.socket # NoSocket
    /\ sockets[nm.socket].state = "opening"

\* C14: a player_move event that carries the client's own player id changes
\* nothing in GameEngine.players, and the move callback is not invoked.
C14_OwnMoveIgnored ==
    [][ (lastEvent'.ev = "on player_move" /\ lastEvent'.data.playerId = nm.playerId) =>
            (enginePlayers' = enginePlayers /\ ~lastEvent'.callback) ]_vars

\* the handler has just dropped a move of the client's own player, of which the
\* mirror holds a proxy at another position
C14_Witness ==
    /\ lastEvent.ev = "on player_move"
    /\ lastEvent.heard
    /\ lastEvent.data.playerId = nm.playerId
    /\ nm.playerId \in DOMAIN enginePlayers
    /\ enginePlayers[nm.playerId].position # lastEvent.data.position

\* C15: after the handler of a player_move event for another player's id,
\* GameEngine.players holds a proxy for that id at the position of the event,
\* whether it held one before or not.
C15_MoveCreatesOrUpdates ==
    [][ (lastEvent'.ev = "on player_move" /\ lastEvent'.heard /\ lastEvent'.data.playerId # nm.playerId) =>
            /\ lastEvent'.data.playerId \in DOMAIN enginePlayers'
            /\ enginePlayers'[lastEvent'.data.playerId].position = lastEvent'.data.position ]_vars

\* the player_move events waiting in a queue of client events
Moves(q) == SelectSeq(q, LAMBDA m : m.ev = "player_move")

\* C16: two consecutive player_move events a page emits are at least 100 ms
\* apart: a sendPlayerPosition call emits only if the last emitted move is that
\* old, a call inside the window emits nothing and changes nothing, and no other
\* step of the page emits a player_move later on its behalf.
C16_MovesThrottled ==
    [][ LET last == history.sent[Len(history.sent)]
            inWindow == history.sent # <<>> /\ cnow - last < ThrottleMs
        IN /\ lastEvent'.ev = "sendPlayerPosition()" =>
                 /\ inWindow => (outbox' = outbox /\ nm' = nm)
                 /\ lastEvent'.sent =>
                       /\ ~inWindow
                       /\ Moves(outbox') = Append(Moves(outbox), ClientEmit("player_move", PositionData(nm, lastEvent'.position)))
           /\ Len(Moves(outbox')) > Len(Moves(outbox)) =>
                 (lastEvent'.ev = "sendPlayerPosition()" /\ lastEvent'.sent) ]_vars

\* the page has emitted a move, and another one after it
C16_Witness ==
    /\ lastEvent.ev = "sendPlayerPosition()"
    /\ lastEvent.sent
    /\ Len(history.sent) >= 2

\* C17: the join request of a reloaded page carries the sessionId of the last
\* join confirmation that reached the browser before the reload, and a join
\* request made before any confirmation carries none.
C17_TokenSurvivesReload ==
    [][ (lastEvent'.ev = "joinWorld()" /\ lastEvent'.sent) =>
            /\ history.reloaded => lastEvent'.sessionId = history.confirmed
            /\ history.confirmed = NoToken => lastEvent'.sessionId = NoToken ]_vars

\* ------------------------------------------------------- further claims

\* C30: every entry playerSessions[t] = p names a player p that is in
\* gameState.players and has t in its sessions.
C30_RegistryNamesStoredPlayer ==
    \A t \in DOMAIN playerSessions :
        /\ playerSessions[t] \in DOMAIN players
        /\ t \in players[playerSessions[t]].sessions

\* a socket of a player has just disconnected while another socket is still
\* registered for the same player
C30_Witness ==
    /\ lastEvent.ev = "disconnect"
    /\ \E t \in DOMAIN playerSessions : playerSessions[t] = lastEvent.playerId

\* C21: once a SIGTERM or SIGINT handler has run, the timer callback of the
\* world clock runs no more: no tick and no world_time_update follows.
C21_NoTickAfterShutdown ==
    [][ shutdown # "running" => lastEvent'.ev # "tick" ]_vars

\* the page's socket this.socket is connected
SocketOpen == nm.socket # NoSocket /\ sockets[nm.socket].state = "connected"

\* C22: at most one heartbeat timer is running; one is running after every
\* 'connect' event of a socket of the page, none after disconnect(); and the
\* timer's callback emits a heartbeat only while the client is connected.
C22_OneHeartbeatWhileConnected ==
    [][ /\ Len(heartbeats') <= 1
        /\ (lastEvent'.ev = "connection" /\ lastEvent'.socket \in ClientTransports) => Len(heartbeats') = 1
        /\ lastEvent'.ev = "disconnect()" => heartbeats' = <<>>
        /\ (lastEvent'.ev = "heartbeat timer" /\ lastEvent'.sent) => (nm.isConnected /\ SocketOpen) ]_vars

\* C23: a chat event from a joined transport is sent exactly once, to every
\* connected transport (the sender too), and carries the sender's logical
\* player id and the name stored for that player.
C23_ChatBroadcastOnce ==
    (lastEvent.ev = "chat_message" /\ lastEvent.socket \in DOMAIN playerSessions) =>
        /\ Len(emitted) = 1
        /\ emitted[1].ev = "chat_message"
        /\ emitted[1].to = Connected
        /\ lastEvent.socket \in emitted[1].to
        /\ emitted[1].data.playerId = playerSessions[lastEvent.socket]
        /\ emitted[1].data.playerId # lastEvent.socket
        /\ emitted[1].data.playerName = players[playerSessions[lastEvent.socket]].name
        /\ emitted[1].data.message = lastEvent.data.message

C23_Witness ==
    /\ lastEvent.ev = "chat_message"
    /\ lastEvent.socket \in DOMAIN playerSessions
    /\ \E t \in Connected : t \notin DOMAIN playerSessions
    /\ \E t \in Connected \ {lastEvent.socket} : t \in DOMAIN playerSessions

\* C25: the mirror of remote players never holds an entry under the logical
\* player id the client's own transport is attached to on the server, also
\* after the snapshot of the client's own join has been processed.
C25_OwnIdNotMirrored ==
    \A t \in ClientTransports :
        t \in DOMAIN playerSessions => playerSessions[t] \notin DOMAIN enginePlayers

\* C26: every unexpected disconnect, on whichever socket of the page it
\* happens, finds the disconnect handler registered on that socket, leaves the
\* client disconnected and adds one reconnection timer.
C26_EveryDisconnectHandled ==
    [][ lastEvent'.ev = "disconnect event" =>
            /\ sockets[lastEvent'.socket].events
            /\ ~nm'.isConnected
            /\ reconnectTimers' = Append(reconnectTimers, cnow + ReconnectDelayMs) ]_vars

\* the page's sockets that are connected, being opened, or retried by their Manager
Live == {k \in SocketIds : sockets[k].state \in {"opening", "connected", "down"}}

\* C27: at any time at most one socket of the page is connected or can still
\* connect, whatever connect() attempts timed out, failed or were repeated.
C27_OneLiveSocket == Cardinality(Live) <= 1

\* the player ids and session ids a message of the server carries
IdsIn(e) ==
    CASE e.ev = "player_join" -> {e.data.id}
      [] e.ev = "world_state" -> {pl.id : pl \in e.data.players}
      [] e.ev = "player_joined" -> {e.data.sessionId, e.data.player.id}
      [] e.ev \in {"player_move", "chat_message"} -> {e.data.playerId}
      [] e.ev = "player_leave" -> {e.data}
      [] OTHER -> {}

\* C28: no message the server sends to a transport carries the session token
\* issued in the join confirmation of a transport that was given another token
\* or none.
C28_TokenNotLeaked ==
    \A i \in DOMAIN emitted : \A u \in emitted[i].to : \A t \in Transports :
        (issued[t] # NoToken /\ issued[u] # issued[t]) => issued[t] \notin IdsIn(emitted[i])

\* the player the server has the page's present connection attached to
ServerSide == Resolve(sockets[nm.socket].id)

\* the page's player has walked to its destination and stopped there, on a
\* connection that was joined before it set out and still is
StoppedWhileJoined ==
    /\ history.arrived
    /\ history.movedAs # NoToken
    /\ CanEmit(nm)
    /\ ServerSide = history.movedAs

\* C29: the frame in which the joined page's player stops emits its final
\* position, and once the player has stopped and nothing is in flight, the
\* position the server stores for it is the position the page shows.
C29_FinalPositionStored ==
    StoppedWhileJoined =>
        /\ (lastEvent.ev = "frame" /\ lastEvent.stopped) => lastEvent.sent
        /\ Quiet => players[history.movedAs].position = localPlayer.position

\* the page has joined on its present connection and has been told so
PageJoined ==
    /\ CanEmit(nm)
    /\ sockets[nm.socket].id \in DOMAIN playerSessions
    /\ history.attached = ServerSide

\* C24: when nothing is in flight, the mirror of a joined page holds exactly
\* the players of the server's store other than the page's own.
C24_MirrorMatchesStore ==
    (Quiet /\ PageJoined) => DOMAIN enginePlayers = DOMAIN players \ {ServerSide}


====
